---- MODULE Spec2Model ----
(***************************************************************************)
(* Model of the hybrid retrieval index of rag_engine.py: the document      *)
(* directory, one live HybridIndex instance (chunks, embeddings, manifest, *)
(* BM25 state, lazily created embedder) and the persisted index directory  *)
(* (manifest.json, chunks.json, embeddings.npy).                           *)
(*                                                                         *)
(* A file's bytes are a content id 1..MaxContent (0 = no such file).  A    *)
(* text is a sequence of whitespace separated words; a word is a record    *)
(* [w, e]: w its word characters, e = TRUE when it ends in '.', '!' or     *)
(* '?'.  An embedding row is the vector the embedder returns for a text.   *)
(***************************************************************************)
EXTENDS Integers, Sequences, FiniteSets, TLC

\* ------------------------------------------------------------------ bounds
\* number of distinct file contents a source file can have
MaxContent == 3
\* config.CHUNK_SIZE and config.CHUNK_OVERLAP, scaled down to the model's texts
CHUNK_SIZE == 3
CHUNK_OVERLAP == 1
\* rows beyond the chunk count an embedding matrix can have when a reindex
\* starts (every reindex of such a matrix adds to them)
MaxStale == 0

\* top_k of a search
MaxTopK == 2

\* the words of a text given to chunk_text
MaxWords == 5
\* the paragraphs of a document given to the structured loader, the words of
\* a body paragraph, and the distinct heading texts
MaxParas == 3
MaxElemWords == 4
MaxHeadings == 2

\* the texts BM25.fit is given and the words of one of them
MaxDocs == 3
MaxDocWords == 2

\* the ranked lists rrf_fuse is given and the positions they rank
MaxLists == 2
MaxPos == 3

\* the default k of rrf_fuse
RRF_K == 60

\* --------------------------------------------------------------- directory
\* the names a file of the document directory can have, in sorted() order
FileOrder == <<"a.pdf", "b.DOCX", "n.txt">>

Range(s) == {s[i] : i \in DOMAIN s}

Names == Range(FileOrder)

\* path.suffix.lower()
SuffixLower(f) ==
    CASE f = "a.pdf" -> ".pdf"
      [] f = "b.DOCX" -> ".docx"
      [] OTHER -> ".txt"

SUPPORTED_EXTENSIONS == {".pdf", ".docx"}

SupportedNames == {f \in Names : SuffixLower(f) \in SUPPORTED_EXTENSIONS}

\* sorted(S) for a set of file names
Sorted(S) == SelectSeq(FileOrder, LAMBDA f : f \in S)

\* the files of the directory d, as folder.iterdir() yields them
IterDir(d) == {f \in Names : d[f] # 0}

\* ------------------------------------------------------------------- texts
Word(w, e) == [w |-> w, e |-> e]

\* sentence j of the model's documents: two words, the second ends in '.'
Sentence(j) == <<Word(j, FALSE), Word(j + 1, TRUE)>>

RECURSIVE Concat(_)
Concat(ss) == IF ss = <<>> THEN <<>> ELSE Head(ss) \o Concat(Tail(ss))

\* the text the parser extracts from a supported file of content b:
\* content 1 is a document without extractable text, content b has b-1 sentences
ExtractText(b) == Concat([j \in 1..(b - 1) |-> Sentence(j)])

\* load_document: the extracted text, or a ValueError for an unsupported suffix
load_document(f, b) ==
    IF SuffixLower(f) \in {".pdf", ".docx"}
    THEN [raised |-> FALSE, text |-> ExtractText(b)]
    ELSE [raised |-> TRUE, text |-> <<>>]

\* _SENTENCE_RE.split: cut after every word that ends a sentence
RECURSIVE SplitSentences(_, _)
SplitSentences(text, cur) ==
    IF text = <<>> THEN (IF cur = <<>> THEN <<>> ELSE <<cur>>)
    ELSE IF Head(text).e
         THEN <<Append(cur, Head(text))>> \o SplitSentences(Tail(text), <<>>)
         ELSE SplitSentences(Tail(text), Append(cur, Head(text)))

\* a chunker that seeds the next chunk with the first words of the emitted one
LastWords_first(lst, n) ==
    IF n >= Len(lst) THEN lst ELSE SubSeq(lst, 1, n)

\* lst[-n:]
LastWords(lst, n) ==
    IF n >= Len(lst) THEN lst ELSE SubSeq(lst, Len(lst) - n + 1, Len(lst))

RECURSIVE ChunkLoop(_, _, _, _, _)
ChunkLoop(sentences, out, current_words, chunk_size, overlap) ==
    IF sentences = <<>>
    THEN IF current_words # <<>> THEN Append(out, current_words) ELSE out
    ELSE LET words == Head(sentences)
             flush == Len(current_words) + Len(words) > chunk_size
                      /\ current_words # <<>>
             out1 == IF flush THEN Append(out, current_words) ELSE out
             cur1 == IF flush
                     THEN (IF overlap # 0 THEN LastWords(current_words, overlap)
                           ELSE <<>>)
                     ELSE current_words
         IN  IF words = <<>>
             THEN ChunkLoop(Tail(sentences), out, current_words, chunk_size, overlap)
             ELSE ChunkLoop(Tail(sentences), out1, cur1 \o words, chunk_size, overlap)

\* chunk_text: the chunks (each a word sequence) of a text
chunk_text(text, chunk_size, overlap) ==
    ChunkLoop(SplitSentences(text, <<>>), <<>>, <<>>, chunk_size, overlap)

\* ---------------------------------------------------------------- embedder
\* SwedishEmbedder.embed: one row per text, in order; no text, no row
Embed(text) == [vec |-> text]

embed(texts) == [i \in DOMAIN texts |-> Embed(texts[i])]

\* -------------------------------------------------------------------- BM25
\* _tokenize: the word characters of every word, punctuation dropped
tokenize(text) == [i \in DOMAIN text |-> text[i].w]

\* collections.Counter
Counter(tokens) ==
    [t \in Range(tokens) |-> Cardinality({i \in DOMAIN tokens : tokens[i] = t})]

SeqSum(s) ==
    LET RECURSIVE S(_)
        S(i) == IF i = 0 THEN 0 ELSE s[i] + S(i - 1)
    IN  S(Len(s))

\* BM25.__init__
NewBM25 == [tf |-> <<>>, doc_lens |-> <<>>, doc_freqs |-> <<>>, n_docs |-> 0,
            avg_dl |-> <<0, 1>>]

\* BM25.fit; avg_dl is the fraction <<sum of lengths, max(n_docs, 1)>>
fit(texts) ==
    LET toks == [i \in DOMAIN texts |-> tokenize(texts[i])]
        terms == UNION {Range(toks[i]) : i \in DOMAIN texts}
        lens == [i \in DOMAIN texts |-> Len(toks[i])]
    IN  [tf |-> [i \in DOMAIN texts |-> Counter(toks[i])],
         doc_lens |-> lens,
         doc_freqs |-> [t \in terms |->
                          Cardinality({i \in DOMAIN texts : t \in Range(toks[i])})],
         n_docs |-> Len(texts),
         avg_dl |-> <<SeqSum(lens), IF Len(texts) > 1 THEN Len(texts) ELSE 1>>]

\* ------------------------------------------------------------ file hashing
\* _file_hash: the SHA-256 digest of the bytes, distinct for distinct contents
file_hash(b) == [sha256 |-> b]

\* compute_file_hashes
compute_file_hashes(d) ==
    [f \in {g \in IterDir(d) : SuffixLower(g) \in SUPPORTED_EXTENSIONS} |->
        file_hash(d[f])]

\* ------------------------------------------------------------- the state
VARIABLES
    dir,         \* the document directory: file name -> content id, 0 = absent
    chunks,      \* HybridIndex.chunks
    embeddings,  \* HybridIndex.embeddings: None, or the rows of the matrix
    manifest,    \* HybridIndex.manifest
    bm25,        \* HybridIndex.bm25
    embedder,    \* HybridIndex._embedder is not None
    disk,        \* config.INDEX_DIR: manifest.json, chunks.json, embeddings.npy
    last         \* the last call: its name, whether it raised, whether it
                 \* reached save() and embed(), and what it returned

vars == <<dir, chunks, embeddings, manifest, bm25, embedder, disk, last>>

index == <<chunks, embeddings, manifest, bm25, embedder>>

None == [none |-> TRUE, rows |-> <<>>]

Array(rows) == [none |-> FALSE, rows |-> rows]

Absent == [exists |-> FALSE, data |-> <<>>]

File(data) == [exists |-> TRUE, data |-> data]

\* the record of a call with the arguments it was given
CallOf(op, raised, saved, embedded, ret, args) ==
    [op |-> op, raised |-> raised, saved |-> saved, embedded |-> embedded,
     ret |-> ret, args |-> args]

Call(op, raised, saved, embedded, ret) ==
    CallOf(op, raised, saved, embedded, ret, <<>>)

\* the collaborator failures a call can meet: none, the loader failing on one
\* file, the embedding model failing to load, embed() failing
Faults == {"none", "embedder", "embed"} \cup Names

\* ---------------------------------------------------------- load_documents
\* a loader that loads every file of the directory, whatever its suffix
load_documents_unfiltered(d, fault) ==
    LET files == Sorted(IterDir(d))
        loaded == [i \in DOMAIN files |-> load_document(files[i], d[files[i]])]
        docs == [i \in DOMAIN files |->
                    [filename |-> files[i], text |-> loaded[i].text]]
    IN  [raised |-> \E i \in DOMAIN files : loaded[i].raised \/ fault = files[i],
         docs |-> SelectSeq(docs, LAMBDA doc : doc.text # <<>>)]

\* the supported files of the directory, loaded in sorted order; documents
\* without text are dropped
load_documents(d, fault) ==
    LET files == Sorted({f \in IterDir(d) : SuffixLower(f) \in SUPPORTED_EXTENSIONS})
        loaded == [i \in DOMAIN files |-> load_document(files[i], d[files[i]])]
        docs == [i \in DOMAIN files |->
                    [filename |-> files[i], text |-> loaded[i].text]]
    IN  [raised |-> \E i \in DOMAIN files : loaded[i].raised \/ fault = files[i],
         docs |-> SelectSeq(docs, LAMBDA doc : doc.text # <<>>)]

\* a chunker that numbers the chunks of a document from 1
FileChunks_from_one(fname, text_chunks) ==
    [i \in DOMAIN text_chunks |->
        [text |-> text_chunks[i], filename |-> fname, chunk_idx |-> i]]

\* the chunk records of one document
FileChunks(fname, text_chunks) ==
    [i \in DOMAIN text_chunks |->
        [text |-> text_chunks[i], filename |-> fname, chunk_idx |-> i - 1]]

Texts(cs) == [i \in DOMAIN cs |-> cs[i].text]

\* manifest[fname] = entry
Put(m, fname, entry) ==
    [f \in DOMAIN m \cup {fname} |-> IF f = fname THEN entry ELSE m[f]]

\* file_hashes.get(fname, ""); [sha256 |-> 0] stands for ""
HashGet(file_hashes, fname) ==
    IF fname \in DOMAIN file_hashes THEN file_hashes[fname] ELSE [sha256 |-> 0]

\* the loop of build over the loaded documents
RECURSIVE BuildLoop(_, _, _, _)
BuildLoop(docs, file_hashes, cs, m) ==
    IF docs = <<>> THEN [chunks |-> cs, manifest |-> m]
    ELSE LET doc == Head(docs)
             new == FileChunks(doc.filename,
                               chunk_text(doc.text, CHUNK_SIZE, CHUNK_OVERLAP))
         IN  BuildLoop(Tail(docs), file_hashes, cs \o new,
                       Put(m, doc.filename,
                           [hash |-> HashGet(file_hashes, doc.filename),
                            chunk_start |-> Len(cs),
                            chunk_end |-> Len(cs) + Len(new)]))

\* ------------------------------------------------------------- persistence
\* HybridIndex.save: manifest.json and chunks.json are rewritten,
\* embeddings.npy only when embeddings is not None.  json.dump and json.load
\* give back the strings, integers, lists and dictionaries they were given.
save(d, m, cs, emb) ==
    [manifest |-> File(m),
     chunks |-> File(cs),
     embeddings |-> IF ~emb.none THEN File(emb.rows) ELSE d.embeddings]

\* a build or reindex that saves before it calls its collaborators
Persisted_early(raised, d, m, cs, emb) == save(d, m, cs, emb)

\* save() is the last statement of build and reindex: the directory a call
\* leaves behind is the saved index when nothing raised before it
Persisted(raised, d, m, cs, emb) ==
    IF raised THEN d ELSE save(d, m, cs, emb)

\* ------------------------------------------------------------------- build
Outcome(raised, cs, emb, m, bm, e, saved, embedded) ==
    [raised |-> raised, chunks |-> cs, embeddings |-> emb, manifest |-> m,
     bm25 |-> bm, embedder |-> e, saved |-> saved, embedded |-> embedded]

\* HybridIndex.build meeting the failure fault: load_documents reads the
\* directory as d_load, compute_file_hashes after it as d_hash
build_on(d_load, d_hash, fault) ==
    LET ld == load_documents(d_load, fault)
        file_hashes == compute_file_hashes(d_hash)
        bl == BuildLoop(ld.docs, file_hashes, <<>>, <<>>)
        texts == Texts(bl.chunks)
    IN  IF ld.raised
        THEN Outcome(TRUE, chunks, embeddings, manifest, bm25, embedder,
                     FALSE, FALSE)
        ELSE IF ~embedder /\ fault = "embedder"
        THEN Outcome(TRUE, bl.chunks, embeddings, bl.manifest, bm25, FALSE,
                     FALSE, FALSE)
        ELSE IF fault = "embed"
        THEN Outcome(TRUE, bl.chunks, embeddings, bl.manifest, bm25, TRUE,
                     FALSE, FALSE)
        ELSE Outcome(FALSE, bl.chunks, Array(embed(texts)), bl.manifest,
                     fit(texts), TRUE, TRUE, TRUE)

\* HybridIndex.build on the directory d, which no one writes meanwhile
build(d, fault) == build_on(d, d, fault)

\* ----------------------------------------------------------- needs_reindex
\* a change detector that always reports a change
needs_reindex_always(m, d) ==
    LET current == compute_file_hashes(d)
        old_files == DOMAIN m
        new_files == DOMAIN current
    IN  [needs |-> TRUE,
         added |-> Sorted(new_files \ old_files),
         changed |-> Sorted({f \in old_files \cap new_files :
                                current[f] # m[f].hash}),
         removed |-> Sorted(old_files \ new_files)]

\* a change detector that reports a changed file as added too
needs_reindex_changed_as_added(m, d) ==
    LET current == compute_file_hashes(d)
        old_files == DOMAIN m
        new_files == DOMAIN current
        added == {f \in new_files : f \notin old_files \/ current[f] # m[f].hash}
        removed == old_files \ new_files
        changed == {f \in old_files \cap new_files : current[f] # m[f].hash}
    IN  [needs |-> added # {} \/ removed # {} \/ changed # {},
         added |-> Sorted(added),
         changed |-> Sorted(changed),
         removed |-> Sorted(removed)]

needs_reindex(m, d) ==
    LET current == compute_file_hashes(d)
        old_files == DOMAIN m
        new_files == DOMAIN current
        added == new_files \ old_files
        removed == old_files \ new_files
        changed == {f \in old_files \cap new_files : current[f] # m[f].hash}
    IN  [needs |-> added # {} \/ removed # {} \/ changed # {},
         added |-> Sorted(added),
         changed |-> Sorted(changed),
         removed |-> Sorted(removed)]

\* ----------------------------------------------------------------- reindex
\* the positions (1-based) of the chunks whose file is not in files_to_remove
keep_indices(cs, files_to_remove) ==
    LET RECURSIVE K(_)
        K(i) == IF i = 0 THEN <<>>
                ELSE IF cs[i].filename \notin files_to_remove
                     THEN Append(K(i - 1), i) ELSE K(i - 1)
    IN  K(Len(cs))

\* [seq[i] for i in keep]
Take(seq, keep) == [k \in DOMAIN keep |-> seq[keep[k]]]

\* a reindex that keeps the old chunks of the changed files
files_to_remove_removed_only(nr) == Range(nr.removed)

files_to_remove(nr) == Range(nr.removed) \cup Range(nr.changed)

files_to_add(nr) == Range(nr.added) \cup Range(nr.changed)

\* a reindex that keeps the manifest entries of the files it removes
pop_all_skipped(m, files) == m

\* for fname in files: manifest.pop(fname, None)
pop_all(m, files) == [f \in DOMAIN m \ files |-> m[f]]

\* a reindex that puts the chunks of a file it adds in front
Extend_in_front(cs, new) == new \o cs

\* the global sequence after the chunks of one more file were added
Extend(cs, new) == cs \o new

\* the loop of reindex over sorted(files_to_add); stops at the file the
\* loader fails on
RECURSIVE AddLoop(_, _, _, _, _, _, _)
AddLoop(files, d, file_hashes, cs, m, new_chunk_texts, fault) ==
    IF files = <<>>
    THEN [raised |-> FALSE, chunks |-> cs, manifest |-> m,
          new_chunk_texts |-> new_chunk_texts]
    ELSE LET fname == Head(files)
             ld == load_document(fname, d[fname])
             new == FileChunks(fname,
                               chunk_text(ld.text, CHUNK_SIZE, CHUNK_OVERLAP))
         IN  IF ld.raised \/ fault = fname
             THEN [raised |-> TRUE, chunks |-> cs, manifest |-> m,
                   new_chunk_texts |-> new_chunk_texts]
             ELSE AddLoop(Tail(files), d, file_hashes, Extend(cs, new),
                          Put(m, fname, [hash |-> file_hashes[fname],
                                         chunk_start |-> Len(cs),
                                         chunk_end |-> Len(cs) + Len(new)]),
                          new_chunk_texts \o Texts(new), fault)

\* a reindex that leaves the ranges as the loops wrote them
rebuild_manifest_ranges_skipped(cs, m) == m

\* HybridIndex._rebuild_manifest_ranges
rebuild_manifest_ranges(cs, m) ==
    LET pos(f) == {i \in DOMAIN cs : cs[i].filename = f}
        Min(S) == CHOOSE x \in S : \A y \in S : x <= y
        Max(S) == CHOOSE x \in S : \A y \in S : x >= y
    IN  [f \in DOMAIN m |->
            IF pos(f) = {} THEN m[f]
            ELSE [hash |-> m[f].hash,
                  chunk_start |-> Min(pos(f)) - 1,
                  chunk_end |-> Max(pos(f))]]

\* HybridIndex.reindex of an instance (cs0, emb0, m0, bm0, e0), meeting the
\* failure fault: needs_reindex reads the directory as d_needs,
\* compute_file_hashes after it as d_hash, load_document after that as d_load.
\* np.vstack appends the new rows, none when the added files have no text.
reindex_on(cs0, emb0, m0, bm0, e0, d_needs, d_hash, d_load, fault) ==
    LET nr == needs_reindex(m0, d_needs)
        rem == files_to_remove(nr)
        add == files_to_add(nr)
        keep == keep_indices(cs0, rem)
        cs1 == IF rem # {} THEN Take(cs0, keep) ELSE cs0
        \* self.embeddings[keep_indices] raises IndexError past the last row
        index_error == rem # {} /\ ~emb0.none /\ keep # <<>>
                       /\ \E k \in DOMAIN keep : keep[k] > Len(emb0.rows)
        emb1 == IF rem = {} THEN emb0
                ELSE IF ~emb0.none /\ keep # <<>>
                THEN Array(Take(emb0.rows, keep))
                ELSE IF keep = <<>> THEN None
                ELSE emb0
        m1 == pop_all(m0, rem)
        al == AddLoop(Sorted(add), d_load, compute_file_hashes(d_hash), cs1,
                      m1, <<>>, fault)
        new_embeddings == embed(al.new_chunk_texts)
        emb2 == IF add = {} THEN emb1
                ELSE IF ~emb1.none /\ Len(emb1.rows) > 0
                THEN Array(emb1.rows \o new_embeddings)
                ELSE Array(new_embeddings)
        cs2 == IF add = {} THEN cs1 ELSE al.chunks
        m2 == IF add = {} THEN m1 ELSE al.manifest
    IN  IF ~nr.needs
        THEN Outcome(FALSE, cs0, emb0, m0, bm0, e0, FALSE, FALSE)
        ELSE IF index_error
        THEN Outcome(TRUE, cs1, emb0, m0, bm0, e0, FALSE, FALSE)
        ELSE IF add # {} /\ ~e0 /\ fault = "embedder"
        THEN Outcome(TRUE, cs1, emb1, m1, bm0, FALSE, FALSE, FALSE)
        ELSE IF add # {} /\ al.raised
        THEN Outcome(TRUE, al.chunks, emb1, al.manifest, bm0, TRUE,
                     FALSE, FALSE)
        ELSE IF add # {} /\ fault = "embed"
        THEN Outcome(TRUE, cs2, emb1, m2, bm0, TRUE, FALSE, FALSE)
        ELSE Outcome(FALSE, cs2, emb2, rebuild_manifest_ranges(cs2, m2),
                     fit(Texts(cs2)), e0 \/ add # {}, TRUE, add # {})

\* HybridIndex.reindex of the instance on the directory d, which no one
\* writes meanwhile
reindex(d, fault) ==
    reindex_on(chunks, embeddings, manifest, bm25, embedder, d, d, d, fault)

\* ------------------------------------------------------------------ search
\* fractions <<numerator, denominator>> with a numerator of 0 or more and a
\* positive denominator; a / b > c / d is decided on the whole parts and then
\* on the remainders, so that no product leaves the integers of the checker
RECURSIVE FracCmp(_, _, _, _)
FracCmp(a, b, c, d) ==
    IF a \div b # c \div d THEN a \div b > c \div d
    ELSE IF a % b = 0 THEN FALSE
    ELSE IF c % d = 0 THEN TRUE
    ELSE FracCmp(d, c % d, b, a % b)

FracGt(x, y) == FracCmp(x[1], x[2], y[1], y[2])

FracAdd(x, y) == <<x[1] * y[2] + y[1] * x[2], x[2] * y[2]>>

\* sorted(enumerate(scores), key=lambda x: -x[1]): the positions of scores by
\* descending score, equal scores in position order (sorted is stable)
SortedDesc(scores) ==
    LET n == Len(scores)
        rank == [i \in 1..n |->
                    Cardinality({j \in 1..n :
                        \/ FracGt(scores[j], scores[i])
                        \/ (~FracGt(scores[i], scores[j]) /\ j < i)}) + 1]
    IN  [r \in 1..n |-> CHOOSE i \in 1..n : rank[i] = r]

\* lst[:n]
Prefix(lst, n) == IF n >= Len(lst) THEN lst ELSE SubSeq(lst, 1, n)

\* the cosine of two rows of the embedder, squared: the embedder of the model
\* maps a text to its vector of term counts, so the cosines are not negative
\* and their order is the order of their squares; a zero norm counts as 1
CosineSq(row, q_emb) ==
    LET ta == tokenize(row.vec)
        tb == tokenize(q_emb.vec)
        a == Counter(ta)
        b == Counter(tb)
        dot == SeqSum([i \in DOMAIN tb |->
                          IF tb[i] \in DOMAIN a THEN a[tb[i]] ELSE 0])
        na == SeqSum([i \in DOMAIN ta |-> a[ta[i]]])
        nb == SeqSum([i \in DOMAIN tb |-> b[tb[i]]])
        norms == IF na * nb = 0 THEN 1 ELSE na * nb
    IN  <<dot * dot, norms>>

\* a BM25.search that keeps the chunks without a score
bm25_search_unfiltered(bm, query, top_k) ==
    LET term == tokenize(query)[1]
        total == bm.avg_dl[1]
        scores == [i \in 1..bm.n_docs |->
            IF term \notin DOMAIN bm.doc_freqs \/ term \notin DOMAIN bm.tf[i]
            THEN <<0, 1>>
            ELSE <<20 * bm.tf[i][term] * total,
                   8 * bm.tf[i][term] * total + 3 * total
                       + 9 * bm.doc_lens[i] * bm.avg_dl[2]>>]
        top == Prefix(SortedDesc(scores), top_k)
    IN  [r \in DOMAIN top |-> <<top[r], scores[top[r]]>>]

\* BM25.search for a query of one term, k1 = 3/2 and b = 3/4: the
\* (position, score) pairs, each score divided by the idf of the term, which
\* is positive whatever the document frequency
bm25_search(bm, query, top_k) ==
    LET term == tokenize(query)[1]
        total == bm.avg_dl[1]
        scores == [i \in 1..bm.n_docs |->
            IF term \notin DOMAIN bm.doc_freqs \/ term \notin DOMAIN bm.tf[i]
            THEN <<0, 1>>
            ELSE <<20 * bm.tf[i][term] * total,
                   8 * bm.tf[i][term] * total + 3 * total
                       + 9 * bm.doc_lens[i] * bm.avg_dl[2]>>]
        ranked == SortedDesc(scores)
        top == SelectSeq(Prefix(ranked, top_k), LAMBDA i : scores[i][1] > 0)
    IN  [r \in DOMAIN top |-> <<top[r], scores[top[r]]>>]

\* an rrf_fuse that stores the share of a rank instead of adding it
rrf_fuse_overwrite(ranked_lists, k) ==
    LET all == Concat([l \in DOMAIN ranked_lists |->
                  [r \in DOMAIN ranked_lists[l] |->
                      [doc_id |-> ranked_lists[l][r][1], rank |-> r - 1]]])
        keys == SelectSeq([i \in DOMAIN all |->
                    [doc_id |-> all[i].doc_id,
                     first |-> \A j \in 1..(i - 1) : all[j].doc_id # all[i].doc_id]],
                    LAMBDA x : x.first)
        RECURSIVE Acc(_, _)
        Acc(doc_id, i) ==
            IF i = 0 THEN <<0, 1>>
            ELSE IF all[i].doc_id = doc_id
                 THEN <<1, k + all[i].rank + 1>>
                 ELSE Acc(doc_id, i - 1)
        scores == [i \in DOMAIN keys |-> Acc(keys[i].doc_id, Len(all))]
        order == SortedDesc(scores)
    IN  [r \in DOMAIN order |-> <<keys[order[r]].doc_id, scores[order[r]]>>]

\* an rrf_fuse that sorts by ascending fused score
rrf_fuse_ascending(ranked_lists, k) ==
    LET all == Concat([l \in DOMAIN ranked_lists |->
                  [r \in DOMAIN ranked_lists[l] |->
                      [doc_id |-> ranked_lists[l][r][1], rank |-> r - 1]]])
        keys == SelectSeq([i \in DOMAIN all |->
                    [doc_id |-> all[i].doc_id,
                     first |-> \A j \in 1..(i - 1) : all[j].doc_id # all[i].doc_id]],
                    LAMBDA x : x.first)
        RECURSIVE Acc(_, _)
        Acc(doc_id, i) ==
            IF i = 0 THEN <<0, 1>>
            ELSE IF all[i].doc_id = doc_id
                 THEN FracAdd(Acc(doc_id, i - 1), <<1, k + all[i].rank + 1>>)
                 ELSE Acc(doc_id, i - 1)
        scores == [i \in DOMAIN keys |-> Acc(keys[i].doc_id, Len(all))]
        order == SortedDesc(scores)
    IN  [r \in DOMAIN order |->
            <<keys[order[Len(order) + 1 - r]].doc_id,
              scores[order[Len(order) + 1 - r]]>>]

\* rrf_fuse: the (position, fused score) pairs by descending fused score;
\* the dictionary keeps the positions in the order of their first occurrence
rrf_fuse(ranked_lists, k) ==
    LET all == Concat([l \in DOMAIN ranked_lists |->
                  [r \in DOMAIN ranked_lists[l] |->
                      [doc_id |-> ranked_lists[l][r][1], rank |-> r - 1]]])
        keys == SelectSeq([i \in DOMAIN all |->
                    [doc_id |-> all[i].doc_id,
                     first |-> \A j \in 1..(i - 1) : all[j].doc_id # all[i].doc_id]],
                    LAMBDA x : x.first)
        RECURSIVE Acc(_, _)
        Acc(doc_id, i) ==
            IF i = 0 THEN <<0, 1>>
            ELSE IF all[i].doc_id = doc_id
                 THEN FracAdd(Acc(doc_id, i - 1), <<1, k + all[i].rank + 1>>)
                 ELSE Acc(doc_id, i - 1)
        scores == [i \in DOMAIN keys |-> Acc(keys[i].doc_id, Len(all))]
        order == SortedDesc(scores)
    IN  [r \in DOMAIN order |-> <<keys[order[r]].doc_id, scores[order[r]]>>]

\* round(score, 4), in units of 1/10000
Round4(x) == (20000 * x[1] + x[2]) \div (2 * x[2])

\* HybridIndex.search on an instance of the given chunks, embeddings, lexical
\* model and embedder; raised stands for the IndexError of self.chunks[idx]
search_on(cs, emb, bm, e, query, top_k) ==
    LET q_emb == embed(<<query>>)[1]
        cosine_scores == [i \in DOMAIN emb.rows |->
                             CosineSq(emb.rows[i], q_emb)]
        sem == Prefix(SortedDesc(cosine_scores), top_k * 2)
        sem_ranked == [r \in DOMAIN sem |-> <<sem[r], cosine_scores[sem[r]]>>]
        bm25_ranked == bm25_search(bm, query, top_k * 2)
        fused == Prefix(rrf_fuse(<<sem_ranked, bm25_ranked>>, 60), top_k)
    IN  IF cs = <<>> \/ emb.none
        THEN [raised |-> FALSE, embedder |-> e, results |-> <<>>]
        ELSE IF \E r \in DOMAIN fused : fused[r][1] > Len(cs)
        THEN [raised |-> TRUE, embedder |-> TRUE, results |-> <<>>]
        ELSE [raised |-> FALSE, embedder |-> TRUE,
              results |-> [r \in DOMAIN fused |->
                  [text |-> cs[fused[r][1]].text,
                   filename |-> cs[fused[r][1]].filename,
                   chunk_idx |-> cs[fused[r][1]].chunk_idx,
                   score |-> Round4(fused[r][2])]]]

\* index.search(query, top_k) on the live instance
search(query, top_k) ==
    search_on(chunks, embeddings, bm25, embedder, query, top_k)

\* -------------------------------------------------------------------- load
\* a load that leaves the lexical model of the new instance unfitted
load_no_refit(d) ==
    IF ~d.manifest.exists
    THEN Outcome(FALSE, <<>>, None, <<>>, NewBM25, FALSE, FALSE, FALSE)
    ELSE IF ~d.chunks.exists
    THEN Outcome(TRUE, <<>>, None, d.manifest.data, NewBM25, FALSE, FALSE, FALSE)
    ELSE Outcome(FALSE, d.chunks.data,
                 IF d.embeddings.exists THEN Array(d.embeddings.data) ELSE None,
                 d.manifest.data, NewBM25, FALSE, FALSE, FALSE)

\* a load that takes a missing manifest.json for an error
load_strict(d) ==
    IF ~d.manifest.exists \/ ~d.chunks.exists
    THEN Outcome(TRUE, <<>>, None, <<>>, NewBM25, FALSE, FALSE, FALSE)
    ELSE Outcome(FALSE, d.chunks.data,
                 IF d.embeddings.exists THEN Array(d.embeddings.data) ELSE None,
                 d.manifest.data,
                 IF d.chunks.data # <<>> THEN fit(Texts(d.chunks.data))
                 ELSE NewBM25,
                 FALSE, FALSE, FALSE)

\* HybridIndex.load: a new instance read from the index directory d
load(d) ==
    IF ~d.manifest.exists
    THEN Outcome(FALSE, <<>>, None, <<>>, NewBM25, FALSE, FALSE, FALSE)
    ELSE IF ~d.chunks.exists
    THEN Outcome(TRUE, <<>>, None, d.manifest.data, NewBM25, FALSE, FALSE, FALSE)
    ELSE Outcome(FALSE, d.chunks.data,
                 IF d.embeddings.exists THEN Array(d.embeddings.data) ELSE None,
                 d.manifest.data,
                 IF d.chunks.data # <<>> THEN fit(Texts(d.chunks.data))
                 ELSE NewBM25,
                 FALSE, FALSE, FALSE)

\* ------------------------------------------------ structure-aware chunking
\* the paragraph styles the structured loader tells apart
Styles == {"Heading 1", "Heading 2", "List", "Normal"}

HeadingStyles == {"Heading 1", "Heading 2"}

\* int(re.search(r'\d+', style_name).group())
Level(style) == IF style = "Heading 2" THEN 2 ELSE 1

\* load_docx_structured: the elements of the paragraphs of a document; a
\* heading is the text of its paragraph, "" is the empty text
RECURSIVE load_docx_structured(_, _, _, _)
load_docx_structured(paras, current_heading, current_level, section_stack) ==
    IF paras = <<>> THEN <<>>
    ELSE LET para == Head(paras)
             level == Level(para.style)
             stack == Append(Prefix(section_stack, level - 1), para.text)
         IN  IF para.text = <<>>
             THEN load_docx_structured(Tail(paras), current_heading,
                                       current_level, section_stack)
             ELSE IF para.style \in HeadingStyles
             THEN <<[text |-> para.text, heading |-> para.text,
                     heading_level |-> level, section_path |-> stack,
                     element_type |-> "heading"]>>
                  \o load_docx_structured(Tail(paras), para.text, level, stack)
             ELSE <<[text |-> para.text, heading |-> current_heading,
                     heading_level |-> current_level,
                     section_path |-> section_stack,
                     element_type |-> IF para.style = "List" THEN "list_item"
                                      ELSE "paragraph"]>>
                  \o load_docx_structured(Tail(paras), current_heading,
                                          current_level, section_stack)

\* load_pdf_structured: the elements of the lines of a document; a line in a
\* larger font than the body text has a heading style, a line that starts
\* with a bullet the list style (the page number of an element is left out)
RECURSIVE load_pdf_structured(_, _, _)
load_pdf_structured(lines, current_heading, section_stack) ==
    IF lines = <<>> THEN <<>>
    ELSE LET line == Head(lines)
         IN  IF line.text = <<>>
             THEN load_pdf_structured(Tail(lines), current_heading,
                                      section_stack)
             ELSE IF line.style \in HeadingStyles
             THEN <<[text |-> line.text, heading |-> line.text,
                     heading_level |-> 1, section_path |-> <<line.text>>,
                     element_type |-> "heading"]>>
                  \o load_pdf_structured(Tail(lines), line.text, <<line.text>>)
             ELSE <<[text |-> line.text, heading |-> current_heading,
                     heading_level |-> IF current_heading # <<>> THEN 1 ELSE 0,
                     section_path |-> section_stack,
                     element_type |-> IF line.style = "List" THEN "list_item"
                                      ELSE "paragraph"]>>
                  \o load_pdf_structured(Tail(lines), current_heading,
                                         section_stack)

\* load_document_structured: the elements of the paragraphs of the file f, or
\* a ValueError for an unsupported suffix
load_document_structured(f, paras) ==
    IF SuffixLower(f) = ".pdf"
    THEN [raised |-> FALSE, elements |-> load_pdf_structured(paras, <<>>, <<>>)]
    ELSE IF SuffixLower(f) = ".docx"
    THEN [raised |-> FALSE,
          elements |-> load_docx_structured(paras, <<>>, 0, <<>>)]
    ELSE [raised |-> TRUE, elements |-> <<>>]

make_chunk(words, filename, chunk_idx, heading, section_path, element_type) ==
    [text |-> words, filename |-> filename, chunk_idx |-> chunk_idx,
     heading |-> heading, section_path |-> section_path,
     element_type |-> element_type]

\* chunks.append(_make_chunk(...)); chunk_idx += 1
Flush(st, filename) ==
    [st EXCEPT !.chunks = Append(@, make_chunk(st.current_words, filename,
                                     st.chunk_idx, st.current_heading,
                                     st.current_section_path,
                                     st.current_element_type)),
               !.chunk_idx = @ + 1]

\* a chunker that lets the text run on when a heading element arrives
HeadingFlush_never(st) == FALSE

\* a heading element arrives while words are accumulated
HeadingFlush(st) == st.current_words # <<>>

\* one round of the loop of _elements_to_chunks
ElementStep(st, elem, filename) ==
    IF elem.element_type = "heading"
    THEN LET s1 == IF HeadingFlush(st)
                   THEN [Flush(st, filename) EXCEPT !.current_words = <<>>]
                   ELSE st
         IN  [s1 EXCEPT !.current_heading = elem.heading,
                        !.current_section_path = elem.section_path]
    ELSE IF elem.text = <<>> THEN st
    ELSE LET s1 == IF elem.heading # st.current_heading
                      /\ st.current_words # <<>>
                   THEN [Flush(st, filename) EXCEPT
                            !.current_words = <<>>,
                            !.current_heading = elem.heading,
                            !.current_section_path = elem.section_path]
                   ELSE st
             s2 == IF Len(s1.current_words) + Len(elem.text) > CHUNK_SIZE
                      /\ s1.current_words # <<>>
                   THEN [Flush(s1, filename) EXCEPT
                            !.current_words =
                                IF CHUNK_OVERLAP # 0
                                THEN LastWords(s1.current_words, CHUNK_OVERLAP)
                                ELSE <<>>]
                   ELSE s1
         IN  [s2 EXCEPT !.current_words = @ \o elem.text,
                        !.current_heading = elem.heading,
                        !.current_section_path = elem.section_path,
                        !.current_element_type = elem.element_type]

RECURSIVE ElementLoop(_, _, _)
ElementLoop(elements, st, filename) ==
    IF elements = <<>>
    THEN (IF st.current_words # <<>> THEN Flush(st, filename).chunks
          ELSE st.chunks)
    ELSE ElementLoop(Tail(elements), ElementStep(st, Head(elements), filename),
                     filename)

\* _elements_to_chunks: the chunk records of the elements of one file
elements_to_chunks(elements, filename) ==
    ElementLoop(elements,
                [chunks |-> <<>>, current_words |-> <<>>,
                 current_heading |-> <<>>, current_section_path |-> <<>>,
                 current_element_type |-> "paragraph", chunk_idx |-> 0],
                filename)

\* the paragraphs of a supported file of content b, one per sentence of its
\* text: a Word document starts with a heading, and list items alternate
\* with plain paragraphs
StyleOf(f, j) ==
    IF SuffixLower(f) = ".docx" /\ j = 1 THEN "Heading 1"
    ELSE IF j % 2 = 0 THEN "List" ELSE "Normal"

ParasOf(f, b) ==
    [j \in 1..(b - 1) |-> [style |-> StyleOf(f, j), text |-> Sentence(j)]]

\* the loop of EnrichedIndex.build over sorted(docs_dir.iterdir())
RECURSIVE EnrichedLoop(_, _, _, _, _)
EnrichedLoop(files, d, file_hashes, cs, m) ==
    IF files = <<>> THEN [chunks |-> cs, manifest |-> m]
    ELSE LET fname == Head(files)
             elements == load_document_structured(fname,
                                                  ParasOf(fname, d[fname])).elements
             enriched_chunks == elements_to_chunks(elements, fname)
         IN  IF SuffixLower(fname) \notin SUPPORTED_EXTENSIONS
             THEN EnrichedLoop(Tail(files), d, file_hashes, cs, m)
             ELSE IF elements = <<>>
             THEN EnrichedLoop(Tail(files), d, file_hashes, cs, m)
             ELSE EnrichedLoop(Tail(files), d, file_hashes,
                               cs \o enriched_chunks,
                               Put(m, fname,
                                   [hash |-> HashGet(file_hashes, fname),
                                    chunk_start |-> Len(cs),
                                    chunk_end |-> Len(cs) + Len(enriched_chunks)]))

\* EnrichedIndex.build on the directory d
enriched_build(d) ==
    LET bl == EnrichedLoop(Sorted(IterDir(d)), d, compute_file_hashes(d),
                           <<>>, <<>>)
        texts == Texts(bl.chunks)
    IN  Outcome(FALSE, bl.chunks, Array(embed(texts)), bl.manifest,
                fit(texts), TRUE, TRUE, TRUE)

\* ----------------------------------------------------------------- actions
\* the queries of a search: one term each, the second one in no document
Queries == {<<Word(t, FALSE)>> : t \in {2, MaxContent + 1}}

Init ==
    /\ dir = [f \in Names |-> 0]
    /\ chunks = <<>>
    /\ embeddings = None
    /\ manifest = <<>>
    /\ bm25 = NewBM25
    /\ embedder = FALSE
    /\ disk = [manifest |-> Absent, chunks |-> Absent, embeddings |-> Absent]
    /\ last = Call("init", FALSE, FALSE, FALSE, <<>>)

\* the contents a file of the directory can get: any for a supported file,
\* one for the unsupported one
Contents(f) ==
    IF SuffixLower(f) \in SUPPORTED_EXTENSIONS THEN 1..MaxContent ELSE {1}

\* a file is added to the document directory, or its bytes change
WriteFile(f, b) ==
    /\ dir[f] # b
    /\ dir' = [dir EXCEPT ![f] = b]
    /\ last' = Call("write", FALSE, FALSE, FALSE, <<>>)
    /\ UNCHANGED <<index, disk>>

\* a file is removed from the document directory
DeleteFile(f) ==
    /\ dir[f] # 0
    /\ dir' = [dir EXCEPT ![f] = 0]
    /\ last' = Call("delete", FALSE, FALSE, FALSE, <<>>)
    /\ UNCHANGED <<index, disk>>

\* HybridIndex(): the caller replaces its instance by a new, empty one
New ==
    /\ chunks' = <<>>
    /\ embeddings' = None
    /\ manifest' = <<>>
    /\ bm25' = NewBM25
    /\ embedder' = FALSE
    /\ last' = Call("new", FALSE, FALSE, FALSE, <<>>)
    /\ UNCHANGED <<dir, disk>>

\* the instance and the index directory after a build or a reindex; printed
\* is what the call reported (reindex: the added, changed and removed files)
Apply(op, o, printed) ==
    /\ chunks' = o.chunks
    /\ embeddings' = o.embeddings
    /\ manifest' = o.manifest
    /\ bm25' = o.bm25
    /\ embedder' = o.embedder
    /\ disk' = Persisted(o.raised, disk, o.manifest, o.chunks, o.embeddings)
    /\ last' = Call(op, o.raised, o.saved, o.embedded, printed)
    /\ UNCHANGED dir

BuildCall(fault) ==
    LET o == build(dir, fault)
    IN  /\ fault # "none" => o.raised
        /\ Apply("build", o, <<>>)

\* index.reindex(docs_dir) on an instance with at most stale rows more than
\* chunks
ReindexWithin(stale, fault) ==
    LET o == reindex(dir, fault)
    IN  /\ Len(embeddings.rows) <= Len(chunks) + stale
        /\ fault # "none" => o.raised
        /\ Apply("reindex", o, needs_reindex(manifest, dir))

ReindexCall(fault) == ReindexWithin(MaxStale, fault)

\* index.build(docs_dir) with working collaborators
Build == BuildCall("none")

\* index.reindex(docs_dir) with working collaborators
Reindex == ReindexCall("none")

\* index.build(docs_dir) while the loader or the embedder fails
BuildFails == \E fault \in Faults \ {"none"} : BuildCall(fault)

\* index.reindex(docs_dir) while the loader or the embedder fails
ReindexFails == \E fault \in Faults \ {"none"} : ReindexCall(fault)

\* a needs_reindex that writes the hashes it computed into the manifest
NeedsReindex_refreshing ==
    /\ last' = Call("needs_reindex", FALSE, FALSE, FALSE,
                    needs_reindex(manifest, dir))
    /\ manifest' = [f \in DOMAIN manifest |->
                       [manifest[f] EXCEPT !.hash =
                           HashGet(compute_file_hashes(dir), f)]]
    /\ UNCHANGED <<dir, chunks, embeddings, bm25, embedder, disk>>

\* index.needs_reindex(docs_dir)
NeedsReindex ==
    /\ last' = Call("needs_reindex", FALSE, FALSE, FALSE,
                    needs_reindex(manifest, dir))
    /\ UNCHANGED <<dir, index, disk>>

\* index.save()
Save ==
    /\ disk' = save(disk, manifest, chunks, embeddings)
    /\ last' = Call("save", FALSE, TRUE, FALSE, <<>>)
    /\ UNCHANGED <<dir, index>>

\* index = HybridIndex.load(); when load raises the caller keeps its instance
Load ==
    LET o == load(disk)
    IN  /\ chunks' = IF o.raised THEN chunks ELSE o.chunks
        /\ embeddings' = IF o.raised THEN embeddings ELSE o.embeddings
        /\ manifest' = IF o.raised THEN manifest ELSE o.manifest
        /\ bm25' = IF o.raised THEN bm25 ELSE o.bm25
        /\ embedder' = IF o.raised THEN embedder ELSE o.embedder
        /\ last' = Call("load", o.raised, FALSE, FALSE, <<>>)
        /\ UNCHANGED <<dir, disk>>

\* load_document(path) called on one file of the directory
LoadDocument(f) ==
    /\ dir[f] # 0
    /\ last' = Call("load_document", load_document(f, dir[f]).raised, FALSE,
                    FALSE, [path |-> f, text |-> load_document(f, dir[f]).text])
    /\ UNCHANGED <<dir, index, disk>>

\* index.search(query, top_k)
Search(query, top_k) ==
    LET o == search(query, top_k)
    IN  /\ embedder' = o.embedder
        /\ last' = CallOf("search", o.raised, FALSE, FALSE, o.results,
                          [query |-> query, top_k |-> top_k])
        /\ UNCHANGED <<dir, chunks, embeddings, manifest, bm25, disk>>

\* one artifact of the index directory is deleted from outside
DeleteArtifact(a) ==
    /\ disk[a].exists
    /\ disk' = [disk EXCEPT ![a] = Absent]
    /\ last' = Call("delete_artifact", FALSE, FALSE, FALSE, <<>>)
    /\ UNCHANGED <<dir, index>>

\* the calls of a caller with working collaborators, on a directory of
\* supported files
Core ==
    \/ \E f \in SupportedNames : \E b \in Contents(f) : WriteFile(f, b)
    \/ \E f \in SupportedNames : DeleteFile(f)
    \/ New
    \/ Build
    \/ Reindex
    \/ NeedsReindex
    \/ Save
    \/ Load

Next == Core

Spec == Init /\ [][Next]_vars

\* a caller that loads, builds, reindexes and searches, as search.py does
NextSearch ==
    \/ \E f \in SupportedNames : \E b \in Contents(f) : WriteFile(f, b)
    \/ \E f \in SupportedNames : DeleteFile(f)
    \/ Build
    \/ Reindex
    \/ Load
    \/ \E query \in Queries : \E top_k \in 1..MaxTopK : Search(query, top_k)

SpecSearch == Init /\ [][NextSearch]_vars

\* the same calls on a directory that also holds a file of another type
NextExt ==
    \/ Core
    \/ \E f \in Names \ SupportedNames : \E b \in Contents(f) : WriteFile(f, b)
    \/ \E f \in Names \ SupportedNames : DeleteFile(f)
    \/ \E f \in Names : LoadDocument(f)

SpecExt == Init /\ [][NextExt]_vars

\* a build or reindex has just failed: the instance may be inconsistent
Failed == last.op \in {"build", "reindex"} /\ last.raised

\* the same calls with collaborators that can fail; a caller whose build or
\* reindex failed discards the instance (it loads or constructs another one)
NextFail ==
    \/ ~Failed /\ Core
    \/ ~Failed /\ BuildFails
    \/ ~Failed /\ ReindexFails
    \/ Failed /\ Load
    \/ Failed /\ New

SpecFail == Init /\ [][NextFail]_vars

\* the same calls on an index directory that can lose artifacts
NextDisk ==
    \/ Core
    \/ \E a \in {"manifest", "chunks", "embeddings"} : DeleteArtifact(a)

SpecDisk == Init /\ [][NextDisk]_vars

\* index.reindex(docs_dir) on an instance that load() gave one stale row more
ReindexStale == ReindexWithin(MaxStale + 1, "none")

\* the caller of search.py on an index directory in which a stale
\* embeddings.npy can lie: it reindexes what it loaded and searches
NextStale ==
    \/ \E f \in SupportedNames : \E b \in Contents(f) : WriteFile(f, b)
    \/ \E f \in SupportedNames : DeleteFile(f)
    \/ Build
    \/ ReindexStale
    \/ Load
    \/ \E query \in Queries : \E top_k \in 1..MaxTopK : Search(query, top_k)

SpecStale == Init /\ [][NextStale]_vars

\* EnrichedIndex().build(docs_dir) with working collaborators
EnrichedBuild == Apply("enriched_build", enriched_build(dir), <<>>)

\* two callers share the index directory: search.py with a HybridIndex, the
\* heading-search demo with an EnrichedIndex; the class of the live instance
\* is not tracked, so either build can follow any call
NextEnriched ==
    \/ \E f \in SupportedNames : \E b \in Contents(f) : WriteFile(f, b)
    \/ \E f \in SupportedNames : DeleteFile(f)
    \/ EnrichedBuild
    \/ Build
    \/ Reindex
    \/ Load

SpecEnriched == Init /\ [][NextEnriched]_vars

\* ------------------------------------------------------- the chunkers
\* the texts chunk_text is called on: up to MaxWords words, each one different
\* from the others, any of them ending a sentence
InputTexts ==
    UNION {{[i \in 1..n |-> Word(i, ends[i])] : ends \in [1..n -> BOOLEAN]} :
              n \in 0..MaxWords}

\* the paragraphs of the documents the structured loader is called on: a
\* heading paragraph has one of MaxHeadings texts, a body paragraph has up to
\* MaxElemWords words that occur nowhere else in the document
ParaKinds ==
    [style : HeadingStyles, n : 1..MaxHeadings]
        \cup [style : Styles \ HeadingStyles, n : 1..MaxElemWords]

Paragraphs(doc) ==
    [j \in DOMAIN doc |->
        [style |-> doc[j].style,
         text |-> IF doc[j].style \in HeadingStyles
                  THEN <<Word(0 - doc[j].n, FALSE)>>
                  ELSE [k \in 1..doc[j].n |->
                           Word(j * (MaxElemWords + 1) + k, FALSE)]]]

InputDocs == UNION {[1..n -> ParaKinds] : n \in 0..MaxParas}

\* the arguments of one call of a chunker
Inputs ==
    UNION {{[text |-> t, chunk_size |-> cs, overlap |-> o] :
                t \in InputTexts, o \in 0..(cs - 1)} : cs \in 1..CHUNK_SIZE}
    \cup {[paras |-> Paragraphs(doc)] : doc \in InputDocs}

InitChunker ==
    /\ dir = [f \in Names |-> 0]
    /\ chunks = <<>>
    /\ embeddings = None
    /\ manifest = <<>>
    /\ bm25 = NewBM25
    /\ embedder = FALSE
    /\ disk = [manifest |-> Absent, chunks |-> Absent, embeddings |-> Absent]
    /\ last \in {Call("input", FALSE, FALSE, FALSE, in) : in \in Inputs}

\* chunk_text(text, chunk_size, overlap)
ChunkText ==
    /\ last.op = "input" /\ "text" \in DOMAIN last.ret
    /\ last' = Call("chunk_text", FALSE, FALSE, FALSE,
                    [text |-> last.ret.text,
                     chunk_size |-> last.ret.chunk_size,
                     overlap |-> last.ret.overlap,
                     chunks |-> chunk_text(last.ret.text, last.ret.chunk_size,
                                           last.ret.overlap)])
    /\ UNCHANGED <<dir, index, disk>>

\* _elements_to_chunks(load_document_structured(path), path.name)
ElementsToChunks ==
    /\ last.op = "input" /\ "paras" \in DOMAIN last.ret
    /\ last' = Call("elements_to_chunks", FALSE, FALSE, FALSE,
                    [elements |-> load_document_structured(
                                      "b.DOCX", last.ret.paras).elements,
                     chunk_size |-> CHUNK_SIZE,
                     overlap |-> CHUNK_OVERLAP,
                     chunks |-> elements_to_chunks(
                                    load_document_structured(
                                        "b.DOCX", last.ret.paras).elements,
                                    "b.DOCX")])
    /\ UNCHANGED <<dir, index, disk>>

NextChunker ==
    \/ ChunkText
    \/ ElementsToChunks

SpecChunker == InitChunker /\ [][NextChunker]_vars

\* ------------------------------------------------- the heading-search demo
\* the calls on an EnrichedIndex: its own build, and the reindex,
\* needs_reindex and load it inherits from HybridIndex
NextHeading ==
    \/ \E f \in SupportedNames : \E b \in Contents(f) : WriteFile(f, b)
    \/ \E f \in SupportedNames : DeleteFile(f)
    \/ EnrichedBuild
    \/ Reindex
    \/ NeedsReindex
    \/ Load

SpecHeading == Init /\ [][NextHeading]_vars

\* ------------------------------------------------------ the command line
\* cmd_index of search.py on an existing document directory: the path the
\* command takes through load, needs_reindex, reindex and build, and the
\* instance it ends with
cmd_index(force) ==
    LET ld == load(disk)
        existing == ld.chunks # <<>>
        nr == needs_reindex(ld.manifest, dir)
    IN  IF ld.raised
        THEN [path |-> "load", existing |-> FALSE, needs |-> FALSE,
              o |-> Outcome(TRUE, chunks, embeddings, manifest, bm25,
                            embedder, FALSE, FALSE)]
        ELSE IF existing /\ nr.needs
        THEN [path |-> "reindex", existing |-> TRUE, needs |-> TRUE,
              o |-> reindex_on(ld.chunks, ld.embeddings, ld.manifest, ld.bm25,
                               ld.embedder, dir, dir, dir, "none")]
        ELSE IF existing /\ ~force
        THEN [path |-> "return", existing |-> TRUE, needs |-> FALSE,
              o |-> ld]
        ELSE [path |-> "build", existing |-> existing, needs |-> FALSE,
              o |-> build(dir, "none")]

\* python search.py index [--force]
CmdIndex(force) ==
    LET c == cmd_index(force)
    IN  /\ chunks' = c.o.chunks
        /\ embeddings' = c.o.embeddings
        /\ manifest' = c.o.manifest
        /\ bm25' = c.o.bm25
        /\ embedder' = c.o.embedder
        /\ disk' = IF c.o.saved
                   THEN save(disk, c.o.manifest, c.o.chunks, c.o.embeddings)
                   ELSE disk
        /\ last' = CallOf("cmd_index", c.o.raised, c.o.saved, c.o.embedded,
                          [path |-> c.path, existing |-> c.existing,
                           needs |-> c.needs],
                          [force |-> force])
        /\ UNCHANGED dir

\* the commands of search.py that write the index, on a directory whose
\* files come, change and go between the commands
NextCli ==
    \/ \E f \in SupportedNames : \E b \in Contents(f) : WriteFile(f, b)
    \/ \E f \in SupportedNames : DeleteFile(f)
    \/ \E force \in BOOLEAN : CmdIndex(force)

SpecCli == Init /\ [][NextCli]_vars

\* ------------------------------------------- writers beside the indexer
\* the steps of a build or reindex between which another process can write;
\* last holds the step the indexing process is at and the directory as the
\* earlier steps read it
Indexing == last.op \in {"build_loading", "reindex_checking", "reindex_hashing"}

\* build, first step: docs = load_documents(docs_dir)
BuildLoad ==
    /\ ~Indexing
    /\ last' = Call("build_loading", FALSE, FALSE, FALSE, [load |-> dir])
    /\ UNCHANGED <<dir, index, disk>>

\* build, the rest: file_hashes = compute_file_hashes(docs_dir), the loop
\* over docs, embed, fit and save
BuildFinish ==
    /\ last.op = "build_loading"
    /\ Apply("build", build_on(last.ret.load, dir, "none"), <<>>)

\* reindex, first step: self.needs_reindex(docs_dir)
ReindexCheck ==
    /\ ~Indexing
    /\ last' = Call("reindex_checking", FALSE, FALSE, FALSE, [needs |-> dir])
    /\ UNCHANGED <<dir, index, disk>>

\* reindex, second step: the removals and, with files to add,
\* file_hashes = compute_file_hashes(docs_dir)
ReindexHash ==
    /\ last.op = "reindex_checking"
    /\ last' = Call("reindex_hashing", FALSE, FALSE, FALSE,
                    [needs |-> last.ret.needs, hash |-> dir])
    /\ UNCHANGED <<dir, index, disk>>

\* reindex, the rest: load_document for every file to add, embed, fit, save
ReindexFinish ==
    /\ last.op = "reindex_hashing"
    /\ Apply("reindex",
             reindex_on(chunks, embeddings, manifest, bm25, embedder,
                        last.ret.needs, last.ret.hash, dir, "none"),
             needs_reindex(manifest, last.ret.needs))

\* another process rewrites a file of the directory while the indexer is
\* between two steps
ConcurrentWrite(f, b) ==
    /\ Indexing
    /\ dir[f] \notin {0, b}
    /\ dir' = [dir EXCEPT ![f] = b]
    /\ UNCHANGED <<index, disk, last>>

\* an indexer and a writer on the same directory: files come, change and go
\* between the calls, and change during them
NextRace ==
    \/ \E f \in SupportedNames : \E b \in Contents(f) : ~Indexing /\ WriteFile(f, b)
    \/ \E f \in SupportedNames : ~Indexing /\ DeleteFile(f)
    \/ BuildLoad
    \/ BuildFinish
    \/ ReindexCheck
    \/ ReindexHash
    \/ ReindexFinish
    \/ \E f \in SupportedNames : \E b \in Contents(f) : ConcurrentWrite(f, b)

SpecRace == Init /\ [][NextRace]_vars

\* the same indexer with no writer beside it
NextAlone ==
    \/ \E f \in SupportedNames : \E b \in Contents(f) : ~Indexing /\ WriteFile(f, b)
    \/ \E f \in SupportedNames : ~Indexing /\ DeleteFile(f)
    \/ BuildLoad
    \/ BuildFinish
    \/ ReindexCheck
    \/ ReindexHash
    \/ ReindexFinish

SpecAlone == Init /\ [][NextAlone]_vars

\* --------------------------------------------------- the ranking functions
\* the terms of the texts BM25 is fitted on
Vocabulary == {1, 2}

\* the texts: up to MaxDocWords words of the vocabulary, at least one
FitTexts ==
    UNION {[1..n -> {Word(t, FALSE) : t \in Vocabulary}] : n \in 1..MaxDocWords}

\* the arguments of BM25.fit: up to MaxDocs texts
FitInputs == {[texts |-> ts] : ts \in UNION {[1..n -> FitTexts] : n \in 0..MaxDocs}}

\* the queries of BM25.search: a term of the vocabulary, or one that is in no
\* text
RankQueries == {<<Word(t, FALSE)>> : t \in Vocabulary \cup {0}}

\* the scores of the pairs of a ranked list: falling with the rank, as a
\* search returns them, or all equal
ScoreKinds == {"falling", "equal"}

\* a ranked list: up to MaxTopK (position, score) pairs of distinct positions
RankedLists(kind) ==
    {[r \in DOMAIN ps |-> <<ps[r], IF kind = "falling" THEN <<1, r>> ELSE <<1, 1>>>>] :
        ps \in {q \in UNION {[1..n -> 1..MaxPos] : n \in 0..MaxTopK} :
                    \A i, j \in DOMAIN q : i # j => q[i] # q[j]}}

\* the arguments of rrf_fuse: n ranked lists and the default k
FuseInputs(n, kind) ==
    {[ranked_lists |-> ls, k |-> RRF_K] : ls \in [1..n -> RankedLists(kind)]}

InitRank ==
    /\ dir = [f \in Names |-> 0]
    /\ chunks = <<>>
    /\ embeddings = None
    /\ manifest = <<>>
    /\ bm25 = NewBM25
    /\ embedder = FALSE
    /\ disk = [manifest |-> Absent, chunks |-> Absent, embeddings |-> Absent]
    /\ \/ \E in \in FitInputs : last = Call("input", FALSE, FALSE, FALSE, in)
       \/ \E n \in 0..MaxLists : \E kind \in ScoreKinds :
             \E in \in FuseInputs(n, kind) :
                last = Call("input", FALSE, FALSE, FALSE, in)

\* bm25.fit(texts)
Fit ==
    /\ last.op = "input" /\ "texts" \in DOMAIN last.ret
    /\ bm25' = fit(last.ret.texts)
    /\ last' = Call("fit", FALSE, FALSE, FALSE, <<>>)
    /\ UNCHANGED <<dir, chunks, embeddings, manifest, embedder, disk>>

\* bm25.search(query, top_k) on the fitted model
BM25Search(query, top_k) ==
    /\ last.op \in {"fit", "bm25_search"}
    /\ last' = CallOf("bm25_search", FALSE, FALSE, FALSE,
                      bm25_search(bm25, query, top_k),
                      [query |-> query, top_k |-> top_k])
    /\ UNCHANGED <<dir, index, disk>>

\* rrf_fuse(ranked_lists, k)
Fuse ==
    /\ last.op = "input" /\ "ranked_lists" \in DOMAIN last.ret
    /\ last' = CallOf("rrf_fuse", FALSE, FALSE, FALSE,
                      rrf_fuse(last.ret.ranked_lists, last.ret.k), last.ret)
    /\ UNCHANGED <<dir, index, disk>>

NextRank ==
    \/ Fit
    \/ Fuse
    \/ \E query \in RankQueries : \E top_k \in 1..MaxTopK :
          BM25Search(query, top_k)

SpecRank == InitRank /\ [][NextRank]_vars

\* ------------------------------------------------------------ properties
\* a build or a reindex has just completed
Completed == last.op \in {"build", "reindex"} /\ ~last.raised

\* the positions (0-based) of the chunks of file f in the global sequence
PositionsOf(f) == {i \in 0..(Len(chunks) - 1) : chunks[i + 1].filename = f}

\* the half-open range of a manifest entry
RangeOf(entry) == entry.chunk_start..(entry.chunk_end - 1)

\* the chunk records a build of the directory from an empty index produces
FullBuild ==
    BuildLoop(load_documents(dir, "none").docs, compute_file_hashes(dir),
              <<>>, <<>>).chunks

\* C1: the index holds one embedding row and one lexical entry per chunk,
\* row i and entry i derived from the text of chunk i, after any sequence of
\* completed builds, reindexes, saves and loads
C1_Aligned ==
    /\ Len(embeddings.rows) = Len(chunks)
    /\ bm25.n_docs = Len(chunks)
    /\ Len(bm25.tf) = Len(chunks)
    /\ \A i \in DOMAIN chunks :
          /\ embeddings.rows[i] = Embed(chunks[i].text)
          /\ bm25.tf[i] = Counter(tokenize(chunks[i].text))
          /\ bm25.doc_lens[i] = Len(tokenize(chunks[i].text))

\* C2: after a completed build or reindex the range of every manifest entry
\* is the set of positions of the chunks of its file
C2_Ranges ==
    Completed => \A f \in DOMAIN manifest : RangeOf(manifest[f]) = PositionsOf(f)

\* a reindex left an entry without chunks beside an entry of two chunks
C2_Witness ==
    /\ Completed /\ last.op = "reindex" /\ last.saved
    /\ \E f \in DOMAIN manifest : PositionsOf(f) = {}
    /\ \E f \in DOMAIN manifest :
          manifest[f].chunk_end - manifest[f].chunk_start = 2
    /\ last.ret.changed # <<>>

\* C3: after a completed reindex the set of chunk records is the set a build
\* of the same directory from an empty index produces
C3_ReindexIsBuild ==
    (Completed /\ last.op = "reindex") => Range(chunks) = Range(FullBuild)

\* an incremental reindex left the chunks in another order than a build does
C3_Witness ==
    /\ Completed /\ last.op = "reindex" /\ last.saved
    /\ last.ret.changed # <<>>
    /\ chunks # FullBuild
    /\ Len(chunks) > 2

\* the files a reindex of the current state would remove or add
Touched ==
    files_to_remove(needs_reindex(manifest, dir))
        \cup files_to_add(needs_reindex(manifest, dir))

\* the positions (1-based) of the chunks of the untouched files
Preserved == keep_indices(chunks, Touched)

\* C4: a reindex keeps the chunks of the untouched files, each with its text,
\* its chunk_idx and the embedding row of its position, in their order, and
\* puts every chunk of an added or changed file after them
C4_Frame ==
    [][(last'.op = "reindex" /\ ~last'.raised) =>
        /\ Len(chunks') >= Len(Preserved)
        /\ \A k \in DOMAIN Preserved :
              /\ chunks'[k] = chunks[Preserved[k]]
              /\ (~embeddings.none /\ Preserved[k] <= Len(embeddings.rows)) =>
                    /\ ~embeddings'.none
                    /\ embeddings'.rows[k] = embeddings.rows[Preserved[k]]
        /\ \A j \in (Len(Preserved) + 1)..Len(chunks') :
              chunks'[j].filename \in files_to_add(needs_reindex(manifest, dir))
      ]_vars

\* a reindex re-chunked a.pdf behind the preserved chunks of b.DOCX
C4_Witness ==
    /\ Completed /\ last.op = "reindex" /\ last.saved
    /\ last.ret.changed = <<"a.pdf">>
    /\ Len(chunks) >= 3
    /\ chunks[1].filename = "b.DOCX"
    /\ chunks[Len(chunks)].filename = "a.pdf"

\* C5: a reindex that directly follows a completed reindex, with no file
\* change between them, changes neither the index nor the index directory
\* and reaches neither embed() nor save()
C5_Idempotent ==
    [][(last.op = "reindex" /\ ~last.raised /\ last'.op = "reindex") =>
        /\ ~last'.raised /\ ~last'.saved /\ ~last'.embedded
        /\ ~last'.ret.needs
        /\ UNCHANGED <<index, disk, dir>>
      ]_vars

\* a reindex found nothing to do on an index an earlier reindex re-ordered
C5_Witness ==
    /\ Completed /\ last.op = "reindex" /\ ~last.saved /\ ~last.ret.needs
    /\ Len(chunks) > 2
    /\ chunks # FullBuild
    /\ disk.chunks.exists /\ disk.chunks.data = chunks

C7_FailureKeepsDisk ==
    [][(last'.op \in {"build", "reindex"} /\ last'.raised) =>
        /\ disk' = disk
        /\ ~last'.saved
      ]_vars

\* a reindex failed after it had changed the chunks in memory
C7_Witness ==
    /\ last.op = "reindex" /\ last.raised
    /\ disk.chunks.exists /\ disk.chunks.data # chunks
    /\ disk.manifest.data # manifest
    /\ chunks # <<>>

C9_LoadRaises ==
    (/\ last.op = "load"
     /\ disk.manifest.exists \/ disk.chunks.exists \/ disk.embeddings.exists
     /\ \/ ~disk.manifest.exists
        \/ ~disk.chunks.exists
        \/ ~disk.embeddings.exists /\ disk.chunks.data # <<>>)
    => last.raised

\* C10: a load from an index directory without artifacts returns an empty
\* index and raises nothing, and a search on an index without chunks returns
\* the empty list
C10_Empty ==
    /\ (/\ last.op = "load"
        /\ ~disk.manifest.exists /\ ~disk.chunks.exists
        /\ ~disk.embeddings.exists) =>
          /\ ~last.raised
          /\ chunks = <<>>
          /\ DOMAIN manifest = {}
          /\ embeddings.none
          /\ bm25 = NewBM25
    /\ (last.op = "search" /\ chunks = <<>>) =>
          /\ ~last.raised
          /\ last.ret = <<>>

\* nothing is persisted, the directory holds documents, and load returned
C10_Witness ==
    /\ last.op = "load" /\ ~last.raised
    /\ ~disk.manifest.exists /\ ~disk.chunks.exists /\ ~disk.embeddings.exists
    /\ IterDir(dir) # {}

\* C11: after every save() the persisted embeddings hold one row per record
\* of the persisted chunk list, row i for record i, and there is no
\* embeddings artifact when the saved chunk list is empty
C11_SavedRows ==
    last.saved =>
        /\ disk.chunks.exists
        /\ IF disk.chunks.data = <<>>
           THEN ~disk.embeddings.exists
           ELSE /\ disk.embeddings.exists
                /\ Len(disk.embeddings.data) = Len(disk.chunks.data)
                /\ \A i \in DOMAIN disk.chunks.data :
                      disk.embeddings.data[i] = Embed(disk.chunks.data[i].text)

\* C12: the index that load() returns after a save() gives, for every query
\* and top_k, the search results of the index that was saved
C12_RoundTrip ==
    last.op = "save" =>
        LET o == load(disk)
        IN  /\ ~o.raised
            /\ \A query \in Queries : \A top_k \in 1..MaxTopK :
                  /\ search_on(o.chunks, o.embeddings, o.bm25, o.embedder,
                               query, top_k).results
                        = search(query, top_k).results
                  /\ search_on(o.chunks, o.embeddings, o.bm25, o.embedder,
                               query, top_k).raised
                        = search(query, top_k).raised

\* an index of three chunks that a reindex re-ordered was saved, and a search
\* on it has results
C12_Witness ==
    /\ last.op = "save"
    /\ Len(chunks) >= 3
    /\ chunks # FullBuild
    /\ \E query \in Queries : Len(search(query, MaxTopK).results) = MaxTopK

\* C13: needs_reindex changes neither the chunks, the embeddings, the
\* manifest, the lexical model nor any persisted artifact, whatever the index
\* and the directory are
C13_PureQuery ==
    [][last'.op = "needs_reindex" =>
        /\ UNCHANGED <<chunks, embeddings, manifest, bm25, embedder>>
        /\ UNCHANGED disk
        /\ UNCHANGED dir
      ]_vars

\* needs_reindex reported a difference on a persisted index with chunks
C13_Witness ==
    /\ last.op = "needs_reindex" /\ last.ret.needs
    /\ chunks # <<>>
    /\ disk.manifest.exists /\ disk.manifest.data = manifest
    /\ last.ret.removed # <<>>

\* the supported files of the directory, and the files of the manifest
CurrentFiles == {f \in IterDir(dir) : SuffixLower(f) \in SUPPORTED_EXTENSIONS}

\* C14: needs_reindex reports as added the files of the directory that the
\* manifest lacks, as removed the files of the manifest that the directory
\* lacks, as changed the files of both whose hash differs from the manifest's;
\* the three are pairwise disjoint and the boolean is true exactly when one
\* of them is not empty
C14_Classified ==
    last.op = "needs_reindex" =>
        LET added == Range(last.ret.added)
            removed == Range(last.ret.removed)
            changed == Range(last.ret.changed)
        IN  /\ added = CurrentFiles \ DOMAIN manifest
            /\ removed = DOMAIN manifest \ CurrentFiles
            /\ changed = {f \in CurrentFiles \cap DOMAIN manifest :
                             file_hash(dir[f]) # manifest[f].hash}
            /\ added \cap removed = {}
            /\ added \cap changed = {}
            /\ removed \cap changed = {}
            /\ Len(last.ret.added) = Cardinality(added)
            /\ Len(last.ret.removed) = Cardinality(removed)
            /\ Len(last.ret.changed) = Cardinality(changed)
            /\ last.ret.needs <=> (added \cup removed \cup changed # {})

\* needs_reindex found one file modified and another one added
C14_Witness ==
    /\ last.op = "needs_reindex"
    /\ last.ret.changed = <<"a.pdf">>
    /\ last.ret.added = <<"b.DOCX">>
    /\ last.ret.removed = <<>>
    /\ last.ret.needs

\* a chunker has just returned
Chunked == last.op \in {"chunk_text", "elements_to_chunks"}

\* the word sequences of the chunks it returned
OutTexts ==
    IF last.op = "chunk_text" THEN last.ret.chunks ELSE Texts(last.ret.chunks)

\* the units it was given: the sentences of the text, or the texts of the
\* body elements
Units ==
    IF last.op = "chunk_text" THEN SplitSentences(last.ret.text, <<>>)
    ELSE Texts(SelectSeq(last.ret.elements,
                         LAMBDA elem : elem.element_type # "heading"))

\* the last n words of c, all of c when it has fewer
Suffix(c, n) == IF n >= Len(c) THEN c ELSE SubSeq(c, Len(c) - n + 1, Len(c))

\* chunk i + 1 starts with the last words of chunk i and goes on with words
\* of its own
Seeded(i) ==
    LET seed == Suffix(OutTexts[i], last.ret.overlap)
    IN  /\ Len(OutTexts[i + 1]) > Len(seed)
        /\ SubSeq(OutTexts[i + 1], 1, Len(seed)) = seed

\* C16: a chunk of chunk_text or _elements_to_chunks has at most chunk_size
\* words, unless a sentence or an element of the input alone has more than
\* chunk_size words
C16_SizeBound ==
    Chunked =>
        \/ \E u \in DOMAIN Units : Len(Units[u]) > last.ret.chunk_size
        \/ \A i \in DOMAIN OutTexts : Len(OutTexts[i]) <= last.ret.chunk_size

\* C17, as claimed: with an overlap above 0, every chunk but the last one of
\* either chunker hands its last overlap words to the next chunk, which
\* starts with them
C17_Original ==
    (Chunked /\ last.ret.overlap > 0) =>
        \A i \in 1..(Len(OutTexts) - 1) : Seeded(i)

\* the position of the body element a word of a chunk comes from
ElemOf(word) ==
    CHOOSE k \in DOMAIN last.ret.elements :
        /\ last.ret.elements[k].element_type # "heading"
        /\ word \in Range(last.ret.elements[k].text)

\* a heading element lies between the last words of chunks i and i + 1
HeadingBetween(i) ==
    \E k \in DOMAIN last.ret.elements :
        /\ last.ret.elements[k].element_type = "heading"
        /\ ElemOf(OutTexts[i][Len(OutTexts[i])]) < k
        /\ k < ElemOf(OutTexts[i + 1][Len(OutTexts[i + 1])])

\* C17, amended: with an overlap above 0, every chunk but the last one of
\* chunk_text hands its last overlap words to the next chunk; in
\* _elements_to_chunks this holds for two successive chunks with no heading
\* element between them, and the chunk after a heading element holds no word
\* of the chunk before it
C17_Overlap ==
    (Chunked /\ last.ret.overlap > 0) =>
        \A i \in 1..(Len(OutTexts) - 1) :
            IF last.op = "elements_to_chunks" /\ HeadingBetween(i)
            THEN Range(OutTexts[i]) \cap Range(OutTexts[i + 1]) = {}
            ELSE Seeded(i)

\* _elements_to_chunks cut the section under a heading at the size limit:
\* the second chunk starts with the last word of the first one
C17_Witness ==
    /\ last.op = "elements_to_chunks"
    /\ last.ret.overlap > 0
    /\ Len(OutTexts) = 2
    /\ ~HeadingBetween(1)
    /\ last.ret.chunks[1].heading # <<>>
    /\ Len(OutTexts[1]) > last.ret.overlap
    /\ OutTexts[2][1] = OutTexts[1][Len(OutTexts[1])]

\* C18: in _elements_to_chunks no chunk is the text of a heading element or
\* holds a word of it, and every word of a chunk comes from a body element
\* whose heading is the heading the chunk is tagged with
C18_Headings ==
    last.op = "elements_to_chunks" =>
        \A i \in DOMAIN last.ret.chunks :
            LET c == last.ret.chunks[i]
                els == last.ret.elements
            IN  /\ c.text # <<>>
                /\ \A k \in DOMAIN els :
                      els[k].element_type = "heading" =>
                          /\ c.text # els[k].text
                          /\ Range(c.text) \cap Range(els[k].text) = {}
                /\ \A w \in Range(c.text) :
                      \E k \in DOMAIN els :
                          /\ els[k].element_type # "heading"
                          /\ w \in Range(els[k].text)
                          /\ els[k].heading = c.heading

\* a heading lies between two body paragraphs: two chunks, the first one
\* tagged with no heading, the second one with the heading
C18_Witness ==
    /\ last.op = "elements_to_chunks"
    /\ Len(last.ret.chunks) = 2
    /\ last.ret.chunks[1].heading = <<>>
    /\ last.ret.chunks[2].heading # <<>>
    /\ last.ret.chunks[2].section_path = <<last.ret.chunks[2].heading>>

\* C19: every chunk of _elements_to_chunks is tagged with the heading, the
\* section_path and the element_type of the element its first word comes from
C19_FirstWord ==
    last.op = "elements_to_chunks" =>
        \A i \in DOMAIN last.ret.chunks :
            LET c == last.ret.chunks[i]
                first == last.ret.elements[ElemOf(c.text[1])]
            IN  /\ c.heading = first.heading
                /\ c.section_path = first.section_path
                /\ c.element_type = first.element_type

\* C15: for every file name, the chunk_idx values of its chunks, read in the
\* order of the global sequence, are 0, 1, ..., n - 1, and its chunks stand
\* at successive positions
C15_ChunkIdx ==
    /\ \A i \in DOMAIN chunks :
          chunks[i].chunk_idx
              = Cardinality({j \in 1..(i - 1) :
                                chunks[j].filename = chunks[i].filename})
    /\ \A i, k \in DOMAIN chunks :
          (i < k /\ chunks[i].filename = chunks[k].filename) =>
              \A j \in i..k : chunks[j].filename = chunks[i].filename

\* a reindex re-chunked a file into two plain chunks behind the two chunks
\* that an enriched build had made of the other file
C15_Witness ==
    /\ Completed /\ last.op = "reindex" /\ last.saved
    /\ Len(chunks) >= 4
    /\ "heading" \in DOMAIN chunks[1] /\ chunks[2].chunk_idx = 1
    /\ "heading" \notin DOMAIN chunks[Len(chunks)]
    /\ chunks[Len(chunks)].chunk_idx = 1
    /\ chunks[1].filename # chunks[Len(chunks)].filename

\* the results of a search that ranks the chunks themselves: the semantic
\* candidates by the embedding of their text, the lexical ones by the BM25
\* model of the chunk texts
Ranked(query, top_k) ==
    search_on(chunks, Array(embed(Texts(chunks))), fit(Texts(chunks)), TRUE,
              query, top_k).results

\* C20: a search with top_k >= 1 on an index with chunks returns at most
\* top_k results, each one the text, filename and chunk_idx of another chunk
\* of the index, by descending score, the scores being the RRF fusion of the
\* top 2 * top_k semantic and the top 2 * top_k lexical candidates
C20_Results ==
    (last.op = "search" /\ chunks # <<>> /\ last.args.top_k >= 1) =>
        /\ ~last.raised
        /\ Len(last.ret) <= last.args.top_k
        /\ \A r \in DOMAIN last.ret :
              \E i \in DOMAIN chunks :
                  /\ chunks[i].text = last.ret[r].text
                  /\ chunks[i].filename = last.ret[r].filename
                  /\ chunks[i].chunk_idx = last.ret[r].chunk_idx
        /\ \A r, q \in DOMAIN last.ret :
              r # q => <<last.ret[r].filename, last.ret[r].chunk_idx>>
                          # <<last.ret[q].filename, last.ret[q].chunk_idx>>
        /\ \A r \in 1..(Len(last.ret) - 1) :
              last.ret[r].score >= last.ret[r + 1].score
        /\ last.ret = Ranked(last.args.query, last.args.top_k)

\* the score BM25 gives text i for a one-term query, divided by the idf of
\* the term: 0 for a text without the term
ScoreOf(i, term) ==
    IF term \notin DOMAIN bm25.tf[i] THEN <<0, 1>>
    ELSE <<20 * bm25.tf[i][term] * bm25.avg_dl[1],
           8 * bm25.tf[i][term] * bm25.avg_dl[1] + 3 * bm25.avg_dl[1]
               + 9 * bm25.doc_lens[i] * bm25.avg_dl[2]>>

\* C21: BM25.search returns at most top_k (position, score) pairs by
\* descending score, none with a score of 0 or less; they are the
\* min(top_k, number of texts with a positive score) best texts; a query term
\* that is in no text gives every text the score 0 and raises nothing
C21_TopK ==
    last.op = "bm25_search" =>
        LET term == last.args.query[1].w
            positive == {i \in 1..bm25.n_docs : FracGt(ScoreOf(i, term), <<0, 1>>)}
            found == {last.ret[r][1] : r \in DOMAIN last.ret}
        IN  /\ ~last.raised
            /\ Len(last.ret) <= last.args.top_k
            /\ \A r \in DOMAIN last.ret :
                  /\ last.ret[r][1] \in 1..bm25.n_docs
                  /\ last.ret[r][2] = ScoreOf(last.ret[r][1], term)
                  /\ FracGt(last.ret[r][2], <<0, 1>>)
            /\ \A r \in 1..(Len(last.ret) - 1) :
                  ~FracGt(last.ret[r + 1][2], last.ret[r][2])
            /\ Cardinality(found) = Len(last.ret)
            /\ found \subseteq positive
            /\ Len(last.ret) = IF Cardinality(positive) < last.args.top_k
                               THEN Cardinality(positive) ELSE last.args.top_k
            /\ \A i \in positive \ found : \A j \in found :
                  ~FracGt(ScoreOf(i, term), ScoreOf(j, term))
            /\ term \notin Vocabulary => last.ret = <<>>

\* a search for the top 2 of three texts with the term, of unequal scores
C21_Witness ==
    /\ last.op = "bm25_search"
    /\ bm25.n_docs = 3
    /\ last.args.top_k = 2
    /\ Len(last.ret) = 2
    /\ \A i \in 1..3 : last.args.query[1].w \in DOMAIN bm25.tf[i]
    /\ FracGt(last.ret[1][2], last.ret[2][2])
    /\ last.ret[1][1] # 1

\* equal fractions
FracEq(x, y) == ~FracGt(x, y) /\ ~FracGt(y, x)

\* the 0-based ranks of a position in the ranked lists given to rrf_fuse, as
\* <<list, rank>> pairs
RanksOf(doc_id) ==
    {x \in UNION {{<<l, r - 1>> : r \in DOMAIN last.args.ranked_lists[l]} :
                     l \in DOMAIN last.args.ranked_lists} :
        last.args.ranked_lists[x[1]][x[2] + 1][1] = doc_id}

\* the sum of 1 / (k + r + 1) over a set of <<list, rank>> pairs
RECURSIVE ShareSum(_)
ShareSum(xs) ==
    IF xs = {} THEN <<0, 1>>
    ELSE LET x == CHOOSE y \in xs : TRUE
         IN  FracAdd(ShareSum(xs \ {x}), <<1, last.args.k + x[2] + 1>>)

\* C22: rrf_fuse returns every position of at least one ranked list once,
\* with the sum over its (list, rank) occurrences of 1 / (k + rank + 1) as
\* fused score, whatever the scores of the lists, by descending fused score
C22_Fused ==
    last.op = "rrf_fuse" =>
        LET occurring == {p \in 1..MaxPos : RanksOf(p) # {}}
        IN  /\ {last.ret[r][1] : r \in DOMAIN last.ret} = occurring
            /\ Len(last.ret) = Cardinality(occurring)
            /\ \A r \in DOMAIN last.ret :
                  FracEq(last.ret[r][2], ShareSum(RanksOf(last.ret[r][1])))
            /\ \A r \in 1..(Len(last.ret) - 1) :
                  ~FracGt(last.ret[r + 1][2], last.ret[r][2])

\* two lists that share one position and have one position each of their own
C22_Witness ==
    /\ last.op = "rrf_fuse"
    /\ Len(last.args.ranked_lists) = 2
    /\ \E p \in 1..MaxPos : Cardinality(RanksOf(p)) = 2
    /\ Cardinality({p \in 1..MaxPos : Cardinality(RanksOf(p)) = 1}) = 2
    /\ Len(last.ret) = 3
    /\ last.ret[1][2] # last.args.ranked_lists[1][1][2]

\* C23: a position that is first in every ranked list gets the fused score
\* (number of lists) / (k + 1), which no position exceeds and no other
\* position reaches, and is the first of the result
C23_Unanimous ==
    (/\ last.op = "rrf_fuse"
     /\ Len(last.args.ranked_lists) >= 1
     /\ \A l \in DOMAIN last.args.ranked_lists :
           /\ last.args.ranked_lists[l] # <<>>
           /\ last.args.ranked_lists[l][1][1] = last.args.ranked_lists[1][1][1])
    => LET best == <<Len(last.args.ranked_lists), last.args.k + 1>>
       IN  /\ last.ret # <<>>
           /\ last.ret[1][1] = last.args.ranked_lists[1][1][1]
           /\ FracEq(last.ret[1][2], best)
           /\ \A r \in 2..Len(last.ret) : FracGt(best, last.ret[r][2])

\* two lists with the same first position and different second positions
C23_Witness ==
    /\ last.op = "rrf_fuse"
    /\ Len(last.args.ranked_lists) = 2
    /\ \A l \in 1..2 : Len(last.args.ranked_lists[l]) = 2
    /\ last.args.ranked_lists[1][1][1] = last.args.ranked_lists[2][1][1]
    /\ last.args.ranked_lists[1][2][1] # last.args.ranked_lists[2][2][1]
    /\ Len(last.ret) = 3

\* C24: index --force on an existing index performs a full build, also when
\* needs_reindex reports changes
C24_ForceBuilds ==
    (last.op = "cmd_index" /\ last.args.force /\ last.ret.existing)
    => last.ret.path = "build"

\* C25: after a successful build of either class the manifest has an entry
\* for every supported file of the directory, also for a file without text,
\* and needs_reindex on the unchanged directory reports nothing
C25_AllListed ==
    (last.op \in {"build", "enriched_build"} /\ ~last.raised)
    => /\ CurrentFiles \subseteq DOMAIN manifest
       /\ needs_reindex(manifest, dir) =
             [needs |-> FALSE, added |-> <<>>, changed |-> <<>>,
              removed |-> <<>>]

\* the chunks the index holds for a file, in order
IndexedChunks(f) ==
    SelectSeq(chunks, LAMBDA c : c.filename = f)

\* the chunks a file of content b is indexed as
ChunksOfContent(f, b) ==
    FileChunks(f, chunk_text(load_document(f, b).text, CHUNK_SIZE, CHUNK_OVERLAP))

\* C26: after a build or reindex during which another process rewrote a
\* file, the hash the manifest stores for a file is the digest of the content
\* its chunks were produced from, and a file whose content in the directory
\* is not the one its chunks were produced from is reported as changed by
\* needs_reindex
C26_HashOfIndexed ==
    Completed =>
        \A f \in DOMAIN manifest :
            /\ \E b \in 1..MaxContent :
                  /\ manifest[f].hash = file_hash(b)
                  /\ IndexedChunks(f) = ChunksOfContent(f, b)
            /\ (dir[f] # 0 /\ IndexedChunks(f) # ChunksOfContent(f, dir[f]))
               => \E i \in DOMAIN needs_reindex(manifest, dir).changed :
                     needs_reindex(manifest, dir).changed[i] = f

\* the chunks EnrichedIndex.build makes of a file of content b
EnrichedChunksOf(f, b) ==
    elements_to_chunks(load_document_structured(f, ParasOf(f, b)).elements, f)

\* C27: after any sequence of build and reindex on an EnrichedIndex every
\* chunk carries heading, section_path and element_type, and the chunks of
\* every indexed file are the ones build makes of it
C27_Tagged ==
    (last.op \in {"enriched_build", "reindex"} /\ ~last.raised)
    => /\ \A i \in DOMAIN chunks :
             {"heading", "section_path", "element_type"}
                 \subseteq DOMAIN chunks[i]
       /\ \A f \in DOMAIN manifest :
             dir[f] # 0 => IndexedChunks(f) = EnrichedChunksOf(f, dir[f])

====
